---- MODULE Spec2Model ----
(***************************************************************************)
(* Model of src/src/httpclient.js: one HttpClient and one verb-method call *)
(* on it, with the transport (node's http/https request object) as the     *)
(* environment that delivers the timeout, error, response, data and end    *)
(* events to the handlers the call registered.                             *)
(***************************************************************************)
EXTENDS Integers, Sequences, FiniteSets, TLC

(***************************************************************************)
(* JavaScript values, tagged by their typeof.                              *)
(***************************************************************************)
Undefined == [t |-> "undefined"]
Null == [t |-> "null"]
S(s) == [t |-> "string", s |-> s]
N(n) == [t |-> "number", n |-> n]
B(b) == [t |-> "boolean", b |-> b]
Fn(name) == [t |-> "function", name |-> name]
O(f) == [t |-> "object", f |-> f]

EmptyObj == O(<<>>)

TypeOf(v) == IF v.t = "null" THEN "object" ELSE v.t

\* ToBoolean of a value, as used by if (...), || and &&
Truthy(v) ==
    CASE v.t = "undefined" -> FALSE
      [] v.t = "null" -> FALSE
      [] v.t = "string" -> v.s # ""
      [] v.t = "number" -> v.n # 0
      [] v.t = "boolean" -> v.b
      [] OTHER -> TRUE

\* a || b
Or(a, b) == IF Truthy(a) THEN a ELSE b

\* o[k]: undefined for a property the value does not have
Get(o, k) == IF o.t = "object" /\ k \in DOMAIN o.f THEN o.f[k] ELSE Undefined

\* Object.keys(o), for the values the code applies it to
Keys(o) == IF o.t = "object" THEN DOMAIN o.f ELSE {}

\* underscore.extend({}, a, b): b's own properties written over a's
Extend(a, b) ==
    O([k \in Keys(a) \cup Keys(b) |-> IF k \in Keys(b) THEN Get(b, k) ELSE Get(a, k)])

(***************************************************************************)
(* Bounds of the model.                                                    *)
(***************************************************************************)
MaxChunks == 2
NumCalls == 2

(***************************************************************************)
(* ToNumber of a string of the model: the empty string, the numerals made  *)
(* of the digit 1 and "2" are numbers; -1 stands for NaN.                  *)
(***************************************************************************)
NaN == -1

RECURSIVE Ones(_)
Ones(n) == IF n = 0 THEN "" ELSE "1" \o Ones(n - 1)

RECURSIVE OnesValue(_)
OnesValue(n) == IF n = 0 THEN 0 ELSE 10 * OnesValue(n - 1) + 1

StrToNum(s) ==
    IF s = Ones(Len(s)) THEN OnesValue(Len(s))
    ELSE IF s = "2" THEN 2
    ELSE NaN

\* a == b (abstract equality), as applied by assert.equal
LooseEq(a, b) ==
    CASE a.t = b.t -> a = b
      [] a.t \in {"undefined", "null"} -> b.t \in {"undefined", "null"}
      [] b.t \in {"undefined", "null"} -> FALSE
      [] a.t = "number" /\ b.t = "string" -> StrToNum(b.s) # NaN /\ StrToNum(b.s) = a.n
      [] a.t = "string" /\ b.t = "number" -> StrToNum(a.s) # NaN /\ StrToNum(a.s) = b.n
      [] a.t = "boolean" /\ b.t = "number" -> b.n = (IF a.b THEN 1 ELSE 0)
      [] a.t = "number" /\ b.t = "boolean" -> a.n = (IF b.b THEN 1 ELSE 0)
      [] OTHER -> FALSE

\* String.prototype.toLowerCase on the header names of the model
ToLowerCase(s) ==
    CASE s = "X-A" -> "x-a"
      [] s = "Content-Type" -> "content-type"
      [] OTHER -> s

\* String(v), as applied by + to a non-string operand
ToStr(v) ==
    CASE v.t = "string" -> v.s
      [] v.t = "number" -> ToString(v.n)
      [] v.t = "boolean" -> (IF v.b THEN "true" ELSE "false")
      [] v.t = "undefined" -> "undefined"
      [] v.t = "null" -> "null"
      [] OTHER -> "[object Object]"

\* The property names of the model, in the order the object literals list them
PropOrder ==
    <<"X-A", "Content-Type", "x-a", "content-type", "q", "name", "status", "headers",
      "body", "data", "ok", "query", "form", "auth", "timeout", "path">>

KeysSeq(o) == SelectSeq(PropOrder, LAMBDA k : k \in Keys(o))

\* querystring.escape(s), for the strings of the model: a space is %20
QueryEscape(s) ==
    CASE s = "a b" -> "a%20b"
      [] OTHER -> s

\* querystring.stringify(o): k=v joined by &, a non-primitive value encoded as ''
QueryPair(k, v) ==
    QueryEscape(k) \o "="
    \o (IF v.t \in {"string", "number", "boolean"} THEN QueryEscape(ToStr(v)) ELSE "")

RECURSIVE QueryJoin(_, _)
QueryJoin(o, ks) ==
    IF ks = <<>> THEN ""
    ELSE QueryPair(Head(ks), Get(o, Head(ks)))
         \o (IF Tail(ks) = <<>> THEN "" ELSE "&" \o QueryJoin(o, Tail(ks)))

QueryStringify(o) == QueryJoin(o, KeysSeq(o))

\* JSON.stringify(v) for the values of the model
RECURSIVE JSONStringify(_)
RECURSIVE JSONJoin(_, _)
JSONJoin(o, ks) ==
    IF ks = <<>> THEN ""
    ELSE "\"" \o Head(ks) \o "\":" \o JSONStringify(Get(o, Head(ks)))
         \o (IF Tail(ks) = <<>> THEN "" ELSE "," \o JSONJoin(o, Tail(ks)))

JSONStringify(v) ==
    CASE v.t = "string" -> "\"" \o v.s \o "\""
      [] v.t \in {"number", "boolean", "null"} -> ToStr(v)
      [] v.t = "object" ->
            "{" \o JSONJoin(v, SelectSeq(KeysSeq(v),
                        LAMBDA k : Get(v, k).t \notin {"undefined", "function"})) \o "}"
      [] OTHER -> "undefined"

(***************************************************************************)
(* The client.                                                             *)
(***************************************************************************)
\* new HttpClient(options)
HttpClient(options) ==
    LET o == Or(options, EmptyObj)
        https == Or(Get(o, "https"), B(FALSE))
    IN [https |-> https,
        auth |-> Or(Get(o, "auth"), Undefined),
        host |-> Or(Get(o, "host"), S("localhost")),
        port |-> Or(Get(o, "port"), IF Truthy(https) THEN N(443) ELSE N(80)),
        path |-> Or(Get(o, "path"), S("")),
        headers |-> Or(Get(o, "headers"), EmptyObj),
        status |-> Get(o, "status"),
        timeout |-> Or(Get(o, "timeout"), N(0))]

methods == {"get", "post", "head", "put", "del", "trace", "options", "connect", "patch"}

BodyMethods == {"post", "put", "patch"}

(***************************************************************************)
(* Signature handling of a verb method: args is the arguments object.      *)
(***************************************************************************)
Arg(args, i) == IF i <= Len(args) THEN args[i] ELSE Undefined

\* Normalize with the third of three arguments taken as req
Normalize_ThirdAsReq(args) ==
    LET req == Or(Arg(args, 3), EmptyObj)
        res == Or(Arg(args, 4), EmptyObj)
        cb == Arg(args, 5)
    IN CASE Len(args) = 2 -> [req |-> req, res |-> res, cb |-> Null]
         [] Len(args) = 3 ->
                IF TypeOf(req) = "function"
                THEN [req |-> EmptyObj, res |-> EmptyObj, cb |-> req]
                ELSE [req |-> req, res |-> EmptyObj, cb |-> Null]
         [] Len(args) = 4 ->
                IF TypeOf(res) = "function"
                THEN [req |-> req, res |-> EmptyObj, cb |-> res]
                ELSE [req |-> req, res |-> res, cb |-> cb]
         [] OTHER -> [req |-> req, res |-> res, cb |-> cb]

Normalize(args) ==
    LET req == Or(Arg(args, 3), EmptyObj)
        res == Or(Arg(args, 4), EmptyObj)
        cb == Arg(args, 5)
    IN CASE Len(args) = 2 -> [req |-> req, res |-> res, cb |-> Null]
         [] Len(args) = 3 ->
                IF TypeOf(req) = "function"
                THEN [req |-> EmptyObj, res |-> EmptyObj, cb |-> req]
                ELSE [req |-> EmptyObj, res |-> req, cb |-> Null]
         [] Len(args) = 4 ->
                IF TypeOf(res) = "function"
                THEN [req |-> req, res |-> EmptyObj, cb |-> res]
                ELSE [req |-> req, res |-> res, cb |-> cb]
         [] OTHER -> [req |-> req, res |-> res, cb |-> cb]

(***************************************************************************)
(* Request construction.                                                   *)
(***************************************************************************)
\* s.indexOf('?') !== -1, for the path strings of the model
HasQuestionMark(s) == s \in {"/users?x=1"}

\* FullPath that joins the query string with '?' whatever the path
FullPath_AlwaysQuestionMark(self, method, path, req) ==
    LET p == ToStr(Or(path, S("")))
        base == ToStr(self.path) \o p
        queryData == Or(Get(req, "query"), Get(req, "data"))
        queryStr == QueryStringify(queryData)
    IN IF method \notin BodyMethods /\ Truthy(queryData)
          /\ TypeOf(queryData) = "object" /\ queryStr # ""
       THEN base \o "?" \o queryStr
       ELSE base

\* this.path + (path || ''), then the query string of a GET-like method
FullPath(self, method, path, req) ==
    LET p == ToStr(Or(path, S("")))
        base == ToStr(self.path) \o p
        queryData == Or(Get(req, "query"), Get(req, "data"))
        queryStr == QueryStringify(queryData)
    IN IF method \notin BodyMethods /\ Truthy(queryData)
          /\ TypeOf(queryData) = "object" /\ queryStr # ""
       THEN base \o (IF HasQuestionMark(ToStr(self.path)) \/ HasQuestionMark(p)
                     THEN "&" ELSE "?") \o queryStr
       ELSE base

\* RequestHeaders that removes the undefined headers only
RequestHeaders_KeepsNull(self, req) ==
    LET h == Extend(self.headers, Or(Get(req, "headers"), EmptyObj))
    IN O([k \in {x \in Keys(h) : Get(h, x).t # "undefined"} |-> Get(h, k)])

\* underscore.extend({}, this.headers, req.headers || {}) minus undefined and null
RequestHeaders(self, req) ==
    LET h == Extend(self.headers, Or(Get(req, "headers"), EmptyObj))
    IN O([k \in {x \in Keys(h) : Get(h, x).t \notin {"undefined", "null"}} |-> Get(h, k)])

HttpMethod(method) ==
    CASE method = "del" -> "DELETE"
      [] method = "get" -> "GET"
      [] method = "post" -> "POST"
      [] method = "head" -> "HEAD"
      [] method = "put" -> "PUT"
      [] method = "trace" -> "TRACE"
      [] method = "options" -> "OPTIONS"
      [] method = "connect" -> "CONNECT"
      [] method = "patch" -> "PATCH"

\* the options object handed to http.request / https.request
RequestOptions(self, method, path, req) ==
    [host |-> self.host,
     port |-> self.port,
     path |-> FullPath(self, method, path, req),
     method |-> HttpMethod(method),
     headers |-> RequestHeaders(self, req),
     rejectUnauthorized |-> FALSE,
     auth |-> IF Truthy(Get(req, "auth")) THEN Get(req, "auth")
              ELSE IF Truthy(self.auth) THEN self.auth ELSE Undefined,
     timeout |-> IF Truthy(Get(req, "timeout")) \/ Truthy(self.timeout)
                 THEN Or(Get(req, "timeout"), self.timeout) ELSE Undefined]

\* one request.setHeader(...)* request.write(data) group
Write(contentType, data) ==
    [contentType |-> contentType, contentLength |-> Len(data), data |-> data]

\* the body of a POST, PUT or PATCH
BodyWrites(method, req) ==
    LET bodyData == Or(Get(req, "body"), Get(req, "data"))
    IN IF method \in BodyMethods /\ Truthy(bodyData)
       THEN CASE TypeOf(bodyData) = "object" ->
                     <<Write("application/json", JSONStringify(bodyData))>>
              [] TypeOf(bodyData) = "string" -> <<Write("", bodyData.s)>>
              [] OTHER -> <<>>
       ELSE <<>>

\* the form data, for every method
FormWrites(req) ==
    IF Truthy(Get(req, "form")) /\ TypeOf(Get(req, "form")) = "object"
    THEN <<Write("application/x-www-form-urlencoded", QueryStringify(Get(req, "form")))>>
    ELSE <<>>

(***************************************************************************)
(* Errors and terminal actions.                                            *)
(***************************************************************************)
\* an Error object: its code, the failed check of an assertion error, and
\* the request property the 'error' handler adds
Err(code, check, key) ==
    [t |-> "error", code |-> code, check |-> check, key |-> key, request |-> Undefined]

\* cb(...), assert.done(...) or throw, and the handler that did it
Terminal(kind, arguments, by) == [kind |-> kind, args |-> arguments, by |-> by]

HasDone(assert) == Truthy(assert) /\ Truthy(Get(assert, "done"))

(***************************************************************************)
(* The response: 'response', 'data' and the steps of 'end'.                *)
(***************************************************************************)
NewResponse(statusCode, headers) ==
    [t |-> "response", statusCode |-> N(statusCode), headers |-> headers, body |-> S(""),
     data |-> Undefined, parseError |-> Undefined,
     ok |-> Undefined, clientError |-> Undefined, serverError |-> Undefined]

\* AppendChunk that puts the chunk in front of the body
AppendChunk_Prepends(body, chunk) == S(chunk \o body.s)

\* response.body += chunk
AppendChunk(body, chunk) == S(body.s \o chunk)

\* contentType.indexOf('application/json') !== -1
ContainsJson(s) == s \in {"application/json", "application/json; charset=utf-8"}

\* JSON.parse(s) for the bodies of the model, which are made of the chunks
\* "1" and "x": a numeral parses, anything else (the empty string too) throws
JSONParse(s) ==
    IF Len(s) > 0 /\ s = Ones(Len(s))
    THEN [threw |-> FALSE, value |-> N(OnesValue(Len(s)))]
    ELSE [threw |-> TRUE, value |-> Err("SyntaxError", "", "")]

\* the JSON step of 'end'
ParseJson(response) ==
    LET contentType == Or(Get(response.headers, "content-type"), S(""))
        parsed == JSONParse(response.body.s)
    IN IF ContainsJson(ToStr(contentType))
       THEN IF parsed.threw
            THEN [response EXCEPT !.data = Null, !.parseError = parsed.value]
            ELSE [response EXCEPT !.data = parsed.value]
       ELSE response

\* SetFlags with 300 counted as a success
SetFlags_300Ok(response) ==
    LET code == response.statusCode.n
    IN [response EXCEPT !.ok = B(code >= 200 /\ code <= 300),
                        !.clientError = B(code >= 400 /\ code < 500),
                        !.serverError = B(code >= 500)]

\* the convenience properties
SetFlags(response) ==
    LET code == response.statusCode.n
    IN [response EXCEPT !.ok = B(code >= 200 /\ code < 300),
                        !.clientError = B(code >= 400 /\ code < 500),
                        !.serverError = B(code >= 500)]

(***************************************************************************)
(* The assertion phase.  A check is one assert.equal / assert.deepEqual    *)
(* call; the handle's checks throw when the comparison fails.              *)
(***************************************************************************)
Check(name, key, actual, expected) ==
    [check |-> name, key |-> key, pass |-> LooseEq(actual, expected)]

\* StatusChecks with the client's status tried before the per-call one
StatusChecks_DefaultFirst(self, res, response) ==
    LET expectedStatus == Or(self.status, Get(res, "status"))
    IN IF Truthy(expectedStatus)
       THEN <<Check("status", "", response.statusCode, expectedStatus)>>
       ELSE <<>>

StatusChecks(self, res, response) ==
    LET expectedStatus == Or(Get(res, "status"), self.status)
    IN IF Truthy(expectedStatus)
       THEN <<Check("status", "", response.statusCode, expectedStatus)>>
       ELSE <<>>

ExpectedHeaders(self, res) == Extend(self.headers, Or(Get(res, "headers"), EmptyObj))

\* HeaderCheck that skips a header the response does not have
HeaderCheck_SkipsMissing(response, expectedHeaders, key) ==
    LET expected == Get(expectedHeaders, key)
        actual == Get(response.headers, ToLowerCase(key))
    IN IF expected # Undefined /\ actual # Undefined
       THEN <<Check("headers", key, actual, expected)>>
       ELSE <<>>

HeaderCheck(response, expectedHeaders, key) ==
    LET expected == Get(expectedHeaders, key)
        actual == Get(response.headers, ToLowerCase(key))
    IN IF expected # Undefined
       THEN <<Check("headers", key, actual, expected)>>
       ELSE <<>>

RECURSIVE HeaderChecksOf(_, _, _)
HeaderChecksOf(response, expectedHeaders, ks) ==
    IF ks = <<>> THEN <<>>
    ELSE HeaderCheck(response, expectedHeaders, Head(ks))
         \o HeaderChecksOf(response, expectedHeaders, Tail(ks))

HeaderChecks(self, res, response) ==
    HeaderChecksOf(response, ExpectedHeaders(self, res), KeysSeq(ExpectedHeaders(self, res)))

BodyChecks(res, response) ==
    IF Get(res, "body") # Undefined
    THEN <<Check("body", "", response.body, Get(res, "body"))>>
    ELSE <<>>

DataChecks(res, response) ==
    IF Get(res, "data") # Undefined
    THEN <<Check("data", "", response.data, Get(res, "data"))>>
    ELSE <<>>

OkChecks(res, response) ==
    IF Get(res, "ok") # Undefined
    THEN <<Check("ok", "", response.ok, Get(res, "ok"))>>
    ELSE <<>>

\* the checks of the try block, in the order the block would reach them
CheckPlan(self, res, response) ==
    StatusChecks(self, res, response) \o HeaderChecks(self, res, response)
    \o BodyChecks(res, response) \o DataChecks(res, response) \o OkChecks(res, response)

FirstFailure(plan) ==
    IF \E i \in 1..Len(plan) : ~plan[i].pass
    THEN CHOOSE i \in 1..Len(plan) : ~plan[i].pass /\ \A j \in 1..(i - 1) : plan[j].pass
    ELSE 0

\* Evaluated with checks that record a failure and go on
Evaluated_All(plan) == plan

\* the checks the try block evaluates: a failing check throws out of it
Evaluated(plan) ==
    IF FirstFailure(plan) = 0 THEN plan ELSE SubSeq(plan, 1, FirstFailure(plan))

\* AssertionPhase without the if (assert) guard
AssertionPhase_Unguarded(assert, self, res, response) ==
    LET ev == Evaluated(CheckPlan(self, res, response))
    IN [ran |-> TRUE, evaluated |-> ev,
        error |-> IF ev # <<>> /\ ~ev[Len(ev)].pass
                  THEN Err("ERR_ASSERTION", ev[Len(ev)].check, ev[Len(ev)].key)
                  ELSE Undefined]

\* if (assert) { try { ... } }: the evaluated checks and the error caught
AssertionPhase(assert, self, res, response) ==
    IF Truthy(assert)
    THEN LET ev == Evaluated(CheckPlan(self, res, response))
         IN [ran |-> TRUE, evaluated |-> ev,
             error |-> IF ev # <<>> /\ ~ev[Len(ev)].pass
                       THEN Err("ERR_ASSERTION", ev[Len(ev)].check, ev[Len(ev)].key)
                       ELSE Undefined]
    ELSE [ran |-> FALSE, evaluated |-> <<>>, error |-> Undefined]

(***************************************************************************)
(* The sinks of the three handlers.                                        *)
(***************************************************************************)
\* AssertionSink without its returns: the success action fires as well
AssertionSink_FallsThrough(assert, cb, response, assertError) ==
    IF Truthy(cb)
    THEN <<Terminal("callback", <<response, assertError>>, "end"),
           Terminal("callback", <<response>>, "end")>>
    ELSE IF Truthy(Get(assert, "done"))
    THEN <<Terminal("done", <<assertError>>, "end"), Terminal("done", <<>>, "end")>>
    ELSE <<Terminal("throw", <<assertError>>, "end")>>

\* catch (assertError) { ... }
AssertionSink(assert, cb, response, assertError) ==
    IF Truthy(cb) THEN <<Terminal("callback", <<response, assertError>>, "end")>>
    ELSE IF Truthy(Get(assert, "done")) THEN <<Terminal("done", <<assertError>>, "end")>>
    ELSE <<Terminal("throw", <<assertError>>, "end")>>

\* SuccessSink with the handle's done tried before the callback
SuccessSink_DoneFirst(assert, cb, response) ==
    IF HasDone(assert) THEN <<Terminal("done", <<>>, "end")>>
    ELSE IF Truthy(cb) THEN <<Terminal("callback", <<response>>, "end")>>
    ELSE <<>>

\* Call callback or assert.done()
SuccessSink(assert, cb, response) ==
    IF Truthy(cb) THEN <<Terminal("callback", <<response>>, "end")>>
    ELSE IF HasDone(assert) THEN <<Terminal("done", <<>>, "end")>>
    ELSE <<>>

\* ErrorSink with the handle's done tried before the callback
ErrorSink_DoneFirst(assert, cb, error) ==
    IF HasDone(assert) THEN <<Terminal("done", <<error>>, "error")>>
    ELSE IF Truthy(cb) THEN <<Terminal("callback", <<Null, error>>, "error")>>
    ELSE <<Terminal("throw", <<error>>, "error")>>

\* request.on('error', ...)
ErrorSink(assert, cb, error) ==
    IF Truthy(cb) THEN <<Terminal("callback", <<Null, error>>, "error")>>
    ELSE IF HasDone(assert) THEN <<Terminal("done", <<error>>, "error")>>
    ELSE <<Terminal("throw", <<error>>, "error")>>

\* the callback of request.setTimeout
TimeoutSink(assert, cb, error) ==
    IF Truthy(cb) THEN <<Terminal("callback", <<Null, error>>, "timeout")>>
    ELSE <<>>

(***************************************************************************)
(* Inputs: the options of the client, the arguments of the call and what   *)
(* the server sends.                                                       *)
(***************************************************************************)
ClientOptions ==
    {Undefined,
     O([path |-> S("/api"), timeout |-> N(50),
        headers |-> O("Content-Type" :> S("text/plain"))]),
     O([headers |-> O("X-A" :> S("1")), status |-> N(200)])}

HandleDone == O([equal |-> Fn("equal"), deepEqual |-> Fn("deepEqual"), done |-> Fn("done")])
HandleNoDone == O([equal |-> Fn("equal"), deepEqual |-> Fn("deepEqual")])
Handles == {Null, Undefined, HandleDone, HandleNoDone}

Callback == Fn("cb")

\* an object that reads as expectations, or as a request with a body
ObjA == O([status |-> N(200), body |-> S("1"), data |-> N(1), ok |-> B(TRUE)])
\* an object that reads as a request, or as expected headers
ObjB ==
    O([headers |-> O([k \in {"X-A", "Content-Type"} |->
                        IF k = "X-A" THEN S("2") ELSE Undefined]),
       timeout |-> N(50), query |-> O([q |-> S("1")]), status |-> N(404)])
\* a request that removes a default header, has a body and a form, and a
\* timeout of 0
ObjC ==
    O([headers |-> O("X-A" :> Null), data |-> O([name |-> S("a b")]),
       form |-> O([q |-> S("1")]), timeout |-> N(0)])

Paths == {Undefined, Null, S(""), N(5), S("/users")}

Extras == {Undefined, Callback, ObjA, ObjB}

CallMethods == {"get", "post"}

\* the argument lists of 2 to 5 arguments
ArgLists ==
    {<<h, p>> : h \in Handles, p \in Paths}
    \cup {<<h, p, a>> : h \in Handles, p \in {S("/users")}, a \in Extras}
    \cup {<<h, p, a, b>> : h \in {Null, HandleDone}, p \in {S("/users")},
                           a \in Extras, b \in Extras}
    \cup {<<h, p, a, b, c>> : h \in {Null, HandleDone}, p \in {S("/users")},
                              a \in {Undefined, ObjB, ObjC}, b \in {Undefined, ObjA, ObjB},
                              c \in {Undefined, Callback}}

StatusCodes == {200, 404}

ResponseHeaders ==
    {EmptyObj,
     O("x-a" :> S("1")),
     O([k \in {"x-a", "content-type"} |->
          IF k = "x-a" THEN S("2") ELSE S("application/json")])}

Chunks == {"1", "x"}

(***************************************************************************)
(* State.                                                                  *)
(***************************************************************************)
VARIABLES
    self,       \* the HttpClient
    pc,         \* "idle" before the verb method is called, "sent" after it
                \* returned, "threw" after an exception left it
    call,       \* the method, the arguments and the normalized locals of the call
    request,    \* the transport request: what was written, ended, aborted, armed
    response,   \* the response object, Undefined before the 'response' event
    chunks,     \* the chunks delivered by 'data' events, in arrival order
    ended,      \* the 'end' handler has run
    errored,    \* the 'error' handler has run
    timedOut,   \* the timeout callback has run
    asserted,   \* the outcome of the assertion phase of 'end'
    terminals,  \* the terminal actions fired so far, in order
    others      \* the same ten, as one record each, for the other calls that
                \* can be in flight on the client

vars == <<self, pc, call, request, response, chunks, ended, errored, timedOut,
          asserted, terminals, others>>

callVars == <<pc, call, request, response, chunks, ended, errored, timedOut,
              asserted, terminals>>

NoCall ==
    [method |-> "", args |-> <<>>, assert |-> Undefined, path |-> Undefined,
     req |-> Undefined, res |-> Undefined, cb |-> Undefined, options |-> Undefined]

NoRequest ==
    [created |-> FALSE, writes |-> <<>>, ended |-> FALSE, aborted |-> FALSE, timer |-> FALSE]

NoAssertion == [ran |-> FALSE, evaluated |-> <<>>, error |-> Undefined]

\* a call that was not made yet
IdleCall ==
    [pc |-> "idle", call |-> NoCall, request |-> NoRequest, response |-> Undefined,
     chunks |-> <<>>, ended |-> FALSE, errored |-> FALSE, timedOut |-> FALSE,
     asserted |-> NoAssertion, terminals |-> <<>>]

Init ==
    /\ self \in {HttpClient(o) : o \in ClientOptions}
    /\ pc = "idle"
    /\ call = NoCall
    /\ request = NoRequest
    /\ response = Undefined
    /\ chunks = <<>>
    /\ ended = FALSE
    /\ errored = FALSE
    /\ timedOut = FALSE
    /\ asserted = NoAssertion
    /\ terminals = <<>>
    /\ others = [p \in 2..NumCalls |-> IdleCall]

(***************************************************************************)
(* HttpClient.prototype[method](...args): normalizes the arguments, builds *)
(* the request, arms the timeout, writes the body and the form, ends the   *)
(* request and registers the 'response' and 'error' handlers.              *)
(***************************************************************************)
\* request.setHeader(...) once request.write(...) has sent the headers: the
\* transport throws ERR_HTTP_HEADERS_SENT
SetHeaderThrows(written) == written # <<>>

\* the writes of the call: the body, then the form unless its setHeader threw
RequestWrites(method, req) ==
    IF FormWrites(req) # <<>> /\ SetHeaderThrows(BodyWrites(method, req))
    THEN [writes |-> BodyWrites(method, req), threw |-> TRUE]
    ELSE [writes |-> BodyWrites(method, req) \o FormWrites(req), threw |-> FALSE]

\* the url of error.request
Url(client, fullPath) ==
    (IF Truthy(client.https) THEN "https" ELSE "http") \o "://" \o ToStr(client.host)
    \o ":" \o ToStr(client.port) \o fullPath

(***************************************************************************)
(* The verb method and the handlers, on the state st of one call: the      *)
(* locals of its closure and its own request and response objects.         *)
(***************************************************************************)
\* the client after a call: the merges start from a fresh {} and nothing is
\* assigned to this, so the client is as it was
ClientAfterCall_MergesHeaders(client, req) ==
    [client EXCEPT !.headers = Extend(@, Or(Get(req, "headers"), EmptyObj))]

ClientAfterCall(client, req) == client

\* HttpClient.prototype[method](...args): normalizes the arguments, builds
\* the request, arms the timeout, writes the body and the form, ends the
\* request and registers the 'response' and 'error' handlers.  An exception
\* that leaves the method before request.end() makes pc "threw": neither the
\* 'response' nor the 'error' handler is registered then.
CallStep(client, st, method, args) ==
    LET n == Normalize(args)
        options == RequestOptions(client, method, Arg(args, 2), n.req)
        w == RequestWrites(method, n.req)
    IN [st EXCEPT
          !.call = [method |-> method, args |-> args, assert |-> Arg(args, 1),
                    path |-> Arg(args, 2), req |-> n.req, res |-> n.res, cb |-> n.cb,
                    options |-> options],
          !.request = [created |-> TRUE, writes |-> w.writes,
                       ended |-> ~w.threw, aborted |-> FALSE,
                       timer |-> Truthy(options.timeout)],
          !.pc = IF w.threw THEN "threw" ELSE "sent",
          !.terminals = IF w.threw
                        THEN <<Terminal("throw", <<Err("ERR_HTTP_HEADERS_SENT", "", "")>>,
                                        "call")>>
                        ELSE <<>>]

\* the callback of request.setTimeout: aborts, then reports to the callback
CanTimeout(st) ==
    st.pc \in {"sent", "threw"} /\ st.request.timer /\ ~st.timedOut /\ ~st.errored
    /\ ~st.ended

TimeoutStep(st) ==
    [st EXCEPT
       !.request = [st.request EXCEPT !.aborted = TRUE],
       !.timedOut = TRUE,
       !.terminals = st.terminals
                     \o TimeoutSink(st.call.assert, st.call.cb, Err("TIMEOUT", "", ""))]

\* request 'error': a failed connection, a reset while the body arrives, or
\* the socket hang up that follows an abort done before any response
CanError(st) ==
    /\ st.pc = "sent" /\ ~st.errored /\ ~st.ended
    /\ st.request.aborted => st.response = Undefined

ErrorStep(client, st) ==
    LET code == IF st.request.aborted \/ st.response # Undefined
                THEN "ECONNRESET" ELSE "ECONNREFUSED"
        error == [Err(code, "", "") EXCEPT
                    !.request = [method |-> st.call.options.method,
                                 url |-> Url(client, st.call.options.path),
                                 headers |-> st.call.options.headers]]
    IN [st EXCEPT
          !.terminals = st.terminals \o ErrorSink(st.call.assert, st.call.cb, error),
          !.errored = TRUE]

\* request 'response'
CanRespond(st) ==
    st.pc = "sent" /\ st.response = Undefined /\ ~st.errored /\ ~st.request.aborted

ResponseStep(st, statusCode, headers) ==
    [st EXCEPT !.response = NewResponse(statusCode, headers)]

\* response 'data'
CanData(st) ==
    /\ st.response # Undefined /\ ~st.ended /\ ~st.errored /\ ~st.request.aborted
    /\ Len(st.chunks) < MaxChunks

DataStep(st, chunk) ==
    [st EXCEPT
       !.response = [st.response EXCEPT !.body = AppendChunk(st.response.body, chunk)],
       !.chunks = Append(st.chunks, chunk)]

\* response 'end'; a runtime that ends the stream of a request that was
\* aborted or reset while the body arrived delivers it then too
CanEnd(st) == st.response # Undefined /\ ~st.ended

EndStep(client, st) ==
    LET r == SetFlags(ParseJson(st.response))
        a == AssertionPhase(st.call.assert, client, st.call.res, r)
    IN [st EXCEPT
          !.response = r,
          !.asserted = a,
          !.terminals = st.terminals \o
                (IF a.error # Undefined
                 THEN AssertionSink(st.call.assert, st.call.cb, r, a.error)
                 ELSE SuccessSink(st.call.assert, st.call.cb, r)),
          !.ended = TRUE]

(***************************************************************************)
(* The call under observation.                                             *)
(***************************************************************************)
Main ==
    [pc |-> pc, call |-> call, request |-> request, response |-> response,
     chunks |-> chunks, ended |-> ended, errored |-> errored, timedOut |-> timedOut,
     asserted |-> asserted, terminals |-> terminals]

SetMain(st) ==
    /\ pc' = st.pc
    /\ call' = st.call
    /\ request' = st.request
    /\ response' = st.response
    /\ chunks' = st.chunks
    /\ ended' = st.ended
    /\ errored' = st.errored
    /\ timedOut' = st.timedOut
    /\ asserted' = st.asserted
    /\ terminals' = st.terminals

Call(method, args) ==
    /\ pc = "idle"
    /\ SetMain(CallStep(self, Main, method, args))
    /\ self' = ClientAfterCall(self, Normalize(args).req)
    /\ UNCHANGED others

Timeout ==
    /\ CanTimeout(Main)
    /\ SetMain(TimeoutStep(Main))
    /\ UNCHANGED <<self, others>>

Error ==
    /\ CanError(Main)
    /\ SetMain(ErrorStep(self, Main))
    /\ UNCHANGED <<self, others>>

Response(statusCode, headers) ==
    /\ CanRespond(Main)
    /\ SetMain(ResponseStep(Main, statusCode, headers))
    /\ UNCHANGED <<self, others>>

Data(chunk) ==
    /\ CanData(Main)
    /\ SetMain(DataStep(Main, chunk))
    /\ UNCHANGED <<self, others>>

End ==
    /\ CanEnd(Main)
    /\ SetMain(EndStep(self, Main))
    /\ UNCHANGED <<self, others>>

Next ==
    \/ \E method \in CallMethods, args \in ArgLists : Call(method, args)
    \/ Timeout
    \/ Error
    \/ \E statusCode \in StatusCodes, headers \in ResponseHeaders :
          Response(statusCode, headers)
    \/ \E chunk \in Chunks : Data(chunk)
    \/ End

Spec == Init /\ [][Next]_vars

(***************************************************************************)
(* The same call under every verb, with paths that have a query string     *)
(* already, and responses at the boundaries of the status ranges.          *)
(***************************************************************************)
\* a request whose query mapping is empty
ObjD == O([query |-> EmptyObj])

\* expectations on the ok flag alone
ObjOk == O([ok |-> B(TRUE)])
ObjNotOk == O([ok |-> B(FALSE)])

VerbArgLists ==
    {<<HandleDone, p, r, e>> : p \in {S("/users"), S("/users?x=1")},
                               r \in {Undefined, ObjB, ObjC, ObjD},
                               e \in {ObjOk, ObjNotOk}}

BoundaryStatusCodes == {199, 200, 299, 300, 399, 400, 499, 500, 599}

NextVerbs ==
    \/ \E method \in methods, args \in VerbArgLists : Call(method, args)
    \/ Timeout
    \/ Error
    \/ \E statusCode \in BoundaryStatusCodes : Response(statusCode, EmptyObj)
    \/ \E chunk \in Chunks : Data(chunk)
    \/ End

SpecVerbs == Init /\ [][NextVerbs]_vars

(***************************************************************************)
(* Several calls in flight on the same client.  The calls are numbered in  *)
(* the order in which the caller makes them; the transport delivers the    *)
(* events of each of them in any interleaving.                             *)
(***************************************************************************)
PeerCall(p, method, args) ==
    /\ others[p].pc = "idle"
    /\ IF p = 2 THEN pc # "idle" ELSE others[p - 1].pc # "idle"
    /\ others' = [others EXCEPT ![p] = CallStep(self, @, method, args)]
    /\ self' = ClientAfterCall(self, Normalize(args).req)
    /\ UNCHANGED callVars

PeerTimeout(p) ==
    /\ CanTimeout(others[p])
    /\ others' = [others EXCEPT ![p] = TimeoutStep(@)]
    /\ UNCHANGED <<self, callVars>>

PeerError(p) ==
    /\ CanError(others[p])
    /\ others' = [others EXCEPT ![p] = ErrorStep(self, @)]
    /\ UNCHANGED <<self, callVars>>

PeerResponse(p, statusCode, headers) ==
    /\ CanRespond(others[p])
    /\ others' = [others EXCEPT ![p] = ResponseStep(@, statusCode, headers)]
    /\ UNCHANGED <<self, callVars>>

PeerData(p, chunk) ==
    /\ CanData(others[p])
    /\ others' = [others EXCEPT ![p] = DataStep(@, chunk)]
    /\ UNCHANGED <<self, callVars>>

PeerEnd(p) ==
    /\ CanEnd(others[p])
    /\ others' = [others EXCEPT ![p] = EndStep(self, @)]
    /\ UNCHANGED <<self, callVars>>

\* a call that expects 200 and the body "1", and one with request headers, a
\* timeout and a callback that expects 404
ConcurrentArgLists ==
    {<<HandleDone, S("/users"), Undefined, ObjA>>,
     <<HandleDone, S("/users?x=1"), ObjB, ObjB, Callback>>}

ConcurrentResponseHeaders ==
    {O([k \in {"x-a", "content-type"} |->
          IF k = "x-a" THEN S("1") ELSE S("application/json")])}

ConcurrentChunks == {"1"}

NextConcurrent ==
    \/ \E args \in ConcurrentArgLists : Call("get", args)
    \/ Timeout
    \/ Error
    \/ \E statusCode \in StatusCodes, headers \in ConcurrentResponseHeaders :
          Response(statusCode, headers)
    \/ \E chunk \in ConcurrentChunks : Data(chunk)
    \/ End
    \/ \E p \in 2..NumCalls :
          \/ \E args \in ConcurrentArgLists : PeerCall(p, "get", args)
          \/ PeerTimeout(p)
          \/ PeerError(p)
          \/ \E statusCode \in StatusCodes, headers \in ConcurrentResponseHeaders :
                PeerResponse(p, statusCode, headers)
          \/ \E chunk \in ConcurrentChunks : PeerData(p, chunk)
          \/ PeerEnd(p)

\* a client with default headers and a default expected status
ConcurrentClientOptions == {O([headers |-> O("X-A" :> S("1")), status |-> N(200)])}

InitConcurrent ==
    /\ Init
    /\ self \in {HttpClient(o) : o \in ConcurrentClientOptions}

SpecConcurrent == InitConcurrent /\ [][NextConcurrent]_vars

(***************************************************************************)
(* Properties.                                                             *)
(***************************************************************************)
\* the terminal actions fired by one handler
FiredBy(by) == SelectSeq(terminals, LAMBDA x : x.by = by)

Kinds == {terminals[i].kind : i \in 1..Len(terminals)}

CallbackSupplied == call.cb.t = "function"

DoneSupplied == call.assert.t = "object" /\ "done" \in DOMAIN call.assert.f

\* the error a terminal action delivers: its last argument
ErrorOf(x) == x.args[Len(x.args)]

\* the sink an error must take by the priority callback > done > throw
TakesErrorSink(x, first) ==
    /\ CallbackSupplied => x.kind = "callback" /\ Len(x.args) = 2 /\ x.args[1] = first
    /\ ~CallbackSupplied /\ DoneSupplied => x.kind = "done" /\ Len(x.args) = 1
    /\ ~CallbackSupplied /\ ~DoneSupplied => x.kind = "throw" /\ Len(x.args) = 1

\* C1: a call that has a sink (a callback, or a handle with done) never fires
\* two terminal actions, and has fired exactly one once its 'end' or its
\* 'error' handler has run.
C1_ExactlyOneTerminal ==
    pc = "sent" /\ (CallbackSupplied \/ DoneSupplied) =>
        /\ Len(terminals) <= 1
        /\ ended \/ errored => Len(terminals) = 1

\* C2: a call whose path is not a non-empty string throws InvalidArgument
\* synchronously and creates no transport request.
C2_InvalidPathRejected ==
    pc = "sent" /\ ~(call.path.t = "string" /\ call.path.s # "") =>
        /\ ~request.created
        /\ \E i \in 1..Len(terminals) :
              terminals[i].kind = "throw" /\ ErrorOf(terminals[i]).code = "InvalidArgument"

\* C3: the 'error' handler delivers the error once, to the callback as
\* (null, error) if one was supplied, else to the handle's done, else by a
\* throw; a call with a callback never has done invoked; the error carries
\* the method, the full url and the headers of the request.
C3_ErrorSinkPriority ==
    /\ errored => Len(FiredBy("error")) = 1
    /\ \A i \in 1..Len(terminals) :
          terminals[i].by = "error" =>
             /\ errored
             /\ TakesErrorSink(terminals[i], Null)
             /\ CallbackSupplied => "done" \notin Kinds
             /\ ErrorOf(terminals[i]).t = "error"
             /\ ErrorOf(terminals[i]).request =
                   [method |-> HttpMethod(call.method),
                    url |-> Url(self, call.options.path),
                    headers |-> call.options.headers]

Witness_C3 ==
    /\ errored /\ ~CallbackSupplied /\ DoneSupplied
    /\ \E i \in 1..Len(terminals) :
          terminals[i].kind = "done" /\ ErrorOf(terminals[i]).code = "ECONNREFUSED"

\* C4: once the deadline elapsed before any response, the request is aborted
\* and a terminal action has delivered an error of kind TIMEOUT to the sink
\* of the priority callback > done > throw.
C4_TimeoutReachesSink ==
    timedOut /\ response = Undefined =>
        /\ request.aborted
        /\ \E i \in 1..Len(terminals) :
              /\ ErrorOf(terminals[i]).code = "TIMEOUT"
              /\ TakesErrorSink(terminals[i], Null)

\* C5: when a check of the assertion phase failed, 'end' fires exactly one
\* terminal action, which delivers the assertion error: to the callback as
\* (response, assertionError) if one was supplied, else to the handle's done,
\* else by a throw; no success action (callback(response) or done()) fires.
C5_AssertionErrorRouting ==
    ended /\ asserted.error # Undefined =>
        /\ asserted.error.code = "ERR_ASSERTION"
        /\ Len(FiredBy("end")) = 1
        /\ TakesErrorSink(FiredBy("end")[1], response)
        /\ ErrorOf(FiredBy("end")[1]) = asserted.error

Witness_C5 ==
    /\ ended /\ asserted.error # Undefined /\ ~CallbackSupplied /\ ~DoneSupplied
    /\ FiredBy("end") = <<Terminal("throw", <<asserted.error>>, "end")>>

\* the position of a check in the order status, headers, body, data, ok
Rank(check) ==
    CASE check = "status" -> 1
      [] check = "headers" -> 2
      [] check = "body" -> 3
      [] check = "data" -> 4
      [] check = "ok" -> 5

\* C6: the assertion phase evaluates its checks in the order status, headers,
\* body, data, ok and stops at the first failing one: only the last evaluated
\* check can have failed, the error reported is that check's, at most one
\* assertion error is delivered, and a response of status 404 against an
\* expected 200 with a mismatched expected body reports the status check only.
C6_FailFastInOrder ==
    ended /\ asserted.ran =>
        LET ev == asserted.evaluated
        IN /\ \A i, j \in 1..Len(ev) : i < j => Rank(ev[i].check) <= Rank(ev[j].check)
           /\ \A i \in 1..Len(ev) : ~ev[i].pass => i = Len(ev)
           /\ asserted.error # Undefined <=> (ev # <<>> /\ ~ev[Len(ev)].pass)
           /\ asserted.error # Undefined =>
                 /\ asserted.error.check = ev[Len(ev)].check
                 /\ Cardinality({i \in 1..Len(terminals) :
                       /\ terminals[i].args # <<>>
                       /\ ErrorOf(terminals[i]).t = "error"
                       /\ ErrorOf(terminals[i]).code = "ERR_ASSERTION"}) = 1
           /\ (/\ Get(call.res, "status") = N(200) /\ response.statusCode = N(404)
               /\ Get(call.res, "body").t = "string" /\ Get(call.res, "body") # response.body)
                 => asserted.error.check = "status" /\ Len(ev) = 1

Witness_C6 ==
    /\ ended /\ asserted.ran
    /\ Get(call.res, "status") = N(200) /\ response.statusCode = N(404)
    /\ Get(call.res, "body") = S("1") /\ response.body = S("x")
    /\ asserted.error # Undefined /\ asserted.error.check = "status"

\* C7: when 'end' ran and no check failed, its terminal action is
\* callback(response) alone if a callback was supplied, else done() with no
\* argument if the handle has a done signal; a call with a callback never has
\* the handle's done invoked, by any handler.
C7_SuccessTerminal ==
    /\ pc = "sent" /\ CallbackSupplied => "done" \notin Kinds
    /\ ended /\ asserted.error = Undefined =>
          /\ CallbackSupplied =>
                FiredBy("end") = <<Terminal("callback", <<response>>, "end")>>
          /\ ~CallbackSupplied /\ DoneSupplied =>
                FiredBy("end") = <<Terminal("done", <<>>, "end")>>

Witness_C7 ==
    /\ ended /\ asserted.ran /\ asserted.evaluated # <<>> /\ asserted.error = Undefined
    /\ CallbackSupplied /\ DoneSupplied
    /\ terminals = <<Terminal("callback", <<response>>, "end")>>

\* the 5-argument list that states the intent of a supported call shape
FiveArgumentForm(args) ==
    CASE Len(args) = 2 -> <<args[1], args[2], Undefined, Undefined, Undefined>>
      [] Len(args) = 3 /\ args[3].t = "function" ->
            <<args[1], args[2], Undefined, Undefined, args[3]>>
      [] Len(args) = 3 /\ args[3].t # "function" ->
            <<args[1], args[2], Undefined, args[3], Undefined>>
      [] Len(args) = 4 /\ args[4].t = "function" ->
            <<args[1], args[2], args[3], Undefined, args[4]>>
      [] Len(args) = 4 /\ args[4].t # "function" ->
            <<args[1], args[2], args[3], args[4], Undefined>>
      [] OTHER -> args

\* an absent callback, null or undefined, is one value
CallbackOf(v) == IF v.t \in {"undefined", "null"} THEN Null ELSE v

\* C8: the (req, res, callback) the call resolved is the one the 5-argument
\* call of the same intent resolves; a function in the last position is the
\* callback and neither req nor res; a non-function third argument of a
\* 3-argument call is the expectations and req is empty.
C8_ArityEquivalence ==
    pc = "sent" =>
        LET args == call.args
            five == Normalize(FiveArgumentForm(args))
            last == args[Len(args)]
        IN /\ call.req = five.req
           /\ call.res = five.res
           /\ CallbackOf(call.cb) = CallbackOf(five.cb)
           /\ Len(args) >= 3 /\ last.t = "function" =>
                 call.cb = last /\ (Len(args) = 3 => call.req # last) /\ call.res # last
           /\ Len(args) = 3 /\ last.t = "object" =>
                 call.res = last /\ call.req = EmptyObj /\ ~CallbackSupplied

Witness_C8 ==
    /\ pc = "sent" /\ Len(call.args) = 3 /\ call.args[3] = ObjB
    /\ call.res = ObjB /\ call.req = EmptyObj
    /\ Keys(call.options.headers) = {}

\* C9: with a null or absent handle no check runs, whatever the expectations;
\* without a callback 'end' fires nothing and 'error' throws; with a callback
\* 'end' calls it with the response and 'error' with (null, error).
C9_NoHandle ==
    pc = "sent" /\ call.assert.t \in {"undefined", "null"} =>
        /\ ~asserted.ran /\ asserted.evaluated = <<>> /\ asserted.error = Undefined
        /\ ~CallbackSupplied =>
              /\ FiredBy("end") = <<>>
              /\ errored => /\ Len(FiredBy("error")) = 1
                            /\ FiredBy("error")[1].kind = "throw"
                            /\ ErrorOf(FiredBy("error")[1]).t = "error"
        /\ CallbackSupplied =>
              /\ ended => FiredBy("end") = <<Terminal("callback", <<response>>, "end")>>
              /\ errored => /\ Len(FiredBy("error")) = 1
                            /\ FiredBy("error")[1].kind = "callback"
                            /\ FiredBy("error")[1].args[1] = Null
                            /\ ErrorOf(FiredBy("error")[1]).t = "error"

Witness_C9 ==
    /\ ended /\ call.assert = Null /\ ~CallbackSupplied
    /\ call.res = ObjA /\ response.statusCode = N(404) /\ self.status = N(200)
    /\ terminals = <<>>

\* the expected value of a header: the per-call one over the client's
ExpectedHeaderKeys == Keys(self.headers) \cup Keys(Get(call.res, "headers"))

ExpectedHeaderOf(k) ==
    IF k \in Keys(Get(call.res, "headers"))
    THEN Get(Get(call.res, "headers"), k)
    ELSE Get(self.headers, k)

\* the response has the header, whatever the case of the expected name
HeaderMatches(k) ==
    /\ ToLowerCase(k) \in Keys(response.headers)
    /\ Get(response.headers, ToLowerCase(k)) = ExpectedHeaderOf(k)

\* C10: when the assertion phase gets past the status check, every header of
\* the client's headers overlaid by the per-call res.headers that has a string
\* value is compared with the response header of the lower-cased name: if one
\* of them is missing from the response or differs, the phase fails with a
\* headers error for such a header; if the phase reports no headers error,
\* each of them was evaluated and matched.
C10_ExpectedHeaders ==
    (/\ ended /\ asserted.ran
     /\ \A i \in 1..Len(asserted.evaluated) :
           asserted.evaluated[i].check = "status" => asserted.evaluated[i].pass) =>
        LET ev == asserted.evaluated
            expected == {k \in ExpectedHeaderKeys : ExpectedHeaderOf(k).t = "string"}
            bad == {k \in expected : ~HeaderMatches(k)}
        IN /\ bad # {} => /\ asserted.error # Undefined
                          /\ asserted.error.check = "headers"
                          /\ asserted.error.key \in bad
           /\ bad = {} => \A k \in expected :
                             \E i \in 1..Len(ev) :
                                ev[i].check = "headers" /\ ev[i].key = k /\ ev[i].pass

Witness_C10 ==
    /\ ended /\ asserted.ran
    /\ Get(self.headers, "X-A") = S("1")
    /\ Get(Get(call.res, "headers"), "X-A") = S("2")
    /\ "x-a" \notin Keys(response.headers)
    /\ asserted.error # Undefined /\ asserted.error.check = "headers"
    /\ asserted.error.key = "X-A"

\* the response says its body is JSON
JsonResponse ==
    /\ "content-type" \in Keys(response.headers)
    /\ Get(response.headers, "content-type").s
          \in {"application/json", "application/json; charset=utf-8"}

\* C11: after 'end', a parse was attempted only for a JSON content-type with
\* a non-empty body: a body that parses sets data and no parseError, one that
\* does not sets parseError and leaves data absent, and in every other case
\* (a JSON content-type with an empty body too) neither is set; a parse
\* failure is never thrown.
C11_JsonParse ==
    ended =>
        LET body == response.body.s
            attempted == JsonResponse /\ body # ""
        IN /\ attempted /\ ~JSONParse(body).threw =>
                 response.data = JSONParse(body).value /\ response.parseError = Undefined
           /\ attempted /\ JSONParse(body).threw =>
                 response.parseError # Undefined /\ response.data \in {Undefined, Null}
           /\ ~attempted =>
                 response.data = Undefined /\ response.parseError = Undefined
           /\ \A i \in 1..Len(terminals) :
                 terminals[i].kind = "throw" => ErrorOf(terminals[i]).code # "SyntaxError"

C13_BodyAndFormSent ==
    (/\ pc # "idle" /\ call.method \in {"post", "put", "patch"}
     /\ Or(Get(call.req, "body"), Get(call.req, "data")).t \in {"object", "string"}
     /\ Truthy(Or(Get(call.req, "body"), Get(call.req, "data")))
     /\ Get(call.req, "form").t = "object") =>
        /\ pc = "sent"
        /\ request.ended
        /\ Len(request.writes) = 2
        /\ request.writes[2].contentType = "application/x-www-form-urlencoded"
        /\ \A i \in 1..Len(terminals) : terminals[i].by # "call"

\* C14: with a handle, the status check compares the response status with
\* res.status when the call has one, else with the client's status, and it is
\* skipped only when both are absent.
C14_ExpectedStatus ==
    ended /\ asserted.ran =>
        LET ev == asserted.evaluated
            perCall == Get(call.res, "status")
            expected == IF perCall.t = "number" THEN perCall ELSE self.status
        IN IF expected.t = "number"
           THEN /\ ev # <<>> /\ ev[1].check = "status"
                /\ ev[1].pass <=> response.statusCode = expected
           ELSE \A i \in 1..Len(ev) : ev[i].check # "status"

Witness_C14 ==
    /\ ended /\ asserted.ran
    /\ self.status = N(200) /\ Get(call.res, "status") = N(404)
    /\ response.statusCode = N(404)
    /\ asserted.evaluated # <<>> /\ asserted.evaluated[1].check = "status"
    /\ asserted.evaluated[1].pass

\* C15: the timeout of the call is req.timeout when the call has one, else the
\* client's; the deadline is armed exactly when that value is positive, and a
\* request without a deadline is never aborted.
C15_TimeoutResolution ==
    pc # "idle" =>
        LET resolved == IF Get(call.req, "timeout") # Undefined
                        THEN Get(call.req, "timeout") ELSE self.timeout
        IN /\ request.timer <=> (resolved.t = "number" /\ resolved.n > 0)
           /\ request.timer => call.options.timeout = resolved
           /\ ~request.timer => ~timedOut /\ ~request.aborted

\* the query string of the mappings of the model, as it is sent
EncodedQuery(mapping) ==
    CASE mapping = O([q |-> S("1")]) -> "q=1"
      [] mapping = O([name |-> S("a b")]) -> "name=a%20b"
      [] OTHER -> ""

\* C16: the request path is the client's path followed by the call's path;
\* for a verb other than POST, PUT and PATCH, the non-empty mapping of
\* req.query (req.data when the call has no req.query) follows it URL-encoded,
\* after '?' when the call's path has no '?' and after '&' when it has one;
\* without such a mapping, and for POST, PUT and PATCH, nothing follows it.
C16_FullPath ==
    pc # "idle" /\ call.path.t = "string" =>
        LET base == self.path.s \o call.path.s
            mapping == IF Get(call.req, "query") # Undefined
                       THEN Get(call.req, "query") ELSE Get(call.req, "data")
        IN IF call.method \in {"post", "put", "patch"} \/ EncodedQuery(mapping) = ""
           THEN call.options.path = base
           ELSE call.options.path =
                   base \o (IF call.path = S("/users?x=1") THEN "&" ELSE "?")
                        \o EncodedQuery(mapping)

Witness_C16 ==
    /\ pc = "sent" /\ call.method = "del" /\ call.req = ObjC
    /\ call.options.method = "DELETE"
    /\ call.options.path = "/api/users?x=1&name=a%20b"

\* C19: after 'end', ok is true exactly for a status of 200 to 299,
\* clientError exactly for 400 to 499 and serverError exactly for 500 and
\* above, so at most one of them is true and none is below 200 and from 300
\* to 399; the ok check of the assertion phase passes exactly when that ok
\* equals res.ok.
C19_StatusFlags ==
    ended =>
        LET code == response.statusCode.n
            ev == asserted.evaluated
        IN /\ response.ok = B(code \in 200..299)
           /\ response.clientError = B(code \in 400..499)
           /\ response.serverError = B(code >= 500)
           /\ Cardinality({f \in {"ok", "clientError", "serverError"} :
                              response[f] = B(TRUE)}) <= 1
           /\ code < 200 \/ code \in 300..399 =>
                 \A f \in {"ok", "clientError", "serverError"} : response[f] = B(FALSE)
           /\ \A i \in 1..Len(ev) :
                 ev[i].check = "ok" =>
                    (ev[i].pass <=> (code \in 200..299) = Get(call.res, "ok").b)

Witness_C19 ==
    /\ ended /\ response.statusCode = N(300) /\ response.ok = B(FALSE)
    /\ call.res = ObjNotOk
    /\ \E i \in 1..Len(asserted.evaluated) :
          asserted.evaluated[i].check = "ok" /\ asserted.evaluated[i].pass

RECURSIVE Concat(_)
Concat(seq) == IF seq = <<>> THEN "" ELSE Head(seq) \o Concat(Tail(seq))

\* C18: the body is at every moment the received chunks in arrival order;
\* before 'end' nothing is parsed, no flag is set, no check has run and no
\* terminal action of the response path has fired; 'end' parses that body,
\* runs the checks on it and on the parsed data, and hands the response so
\* completed to its terminal action.
C18_DecidedAtEnd ==
    /\ \A i \in 1..Len(terminals) : terminals[i].by \in {"call", "timeout", "error", "end"}
    /\ response # Undefined => response.body = S(Concat(chunks))
    /\ ~ended =>
          /\ asserted = NoAssertion
          /\ FiredBy("end") = <<>>
          /\ response # Undefined =>
                /\ response.data = Undefined /\ response.parseError = Undefined
                /\ response.ok = Undefined
    /\ ended =>
          LET ev == asserted.evaluated
          IN /\ JsonResponse /\ chunks # <<>> /\ (\A i \in 1..Len(chunks) : chunks[i] = "1")
                   => response.data.t = "number" /\ ToString(response.data.n) = Concat(chunks)
             /\ JsonResponse /\ (\E i \in 1..Len(chunks) : chunks[i] = "x")
                   => response.parseError # Undefined
             /\ \A i \in 1..Len(ev) :
                   /\ ev[i].check = "body" =>
                         (ev[i].pass <=> Get(call.res, "body") = S(Concat(chunks)))
                   /\ ev[i].check = "data" /\ Get(call.res, "data").t = "number" =>
                         (ev[i].pass <=> response.data = Get(call.res, "data"))
             /\ \A i \in 1..Len(terminals) :
                   terminals[i].by = "end" /\ terminals[i].kind = "callback" =>
                      /\ terminals[i].args[1] = response
                      /\ Len(terminals[i].args) = 2 <=> asserted.error # Undefined

Witness_C18 ==
    /\ ended /\ chunks = <<"1", "x">> /\ response.body = S("1x")
    /\ JsonResponse /\ response.parseError # Undefined
    /\ asserted.ran /\ CallbackSupplied
    /\ \E i \in 1..Len(terminals) : terminals[i].by = "end" /\ terminals[i].args[1] = response


\* the state of call i: the call under observation is call 1
InFlight(i) == IF i = 1 THEN Main ELSE others[i]

\* what call state st holds is made of its own events and arguments only
OwnOutcome(st) ==
    /\ st.pc # "idle" =>
          LET n == Normalize(st.call.args)
          IN /\ st.call.req = n.req /\ st.call.res = n.res /\ st.call.cb = n.cb
             /\ st.call.options = RequestOptions(self, st.call.method, st.call.args[2], n.req)
    /\ st.response # Undefined =>
          /\ st.response.body = S(Concat(st.chunks))
          /\ st.response.statusCode \in {N(c) : c \in StatusCodes}
          /\ st.response.headers \in ConcurrentResponseHeaders
    /\ st.ended /\ st.asserted.ran =>
          LET ev == st.asserted.evaluated
              perCall == Get(st.call.res, "status")
              expected == IF perCall.t = "number" THEN perCall ELSE self.status
          IN /\ expected.t = "number" =>
                   /\ ev # <<>> /\ ev[1].check = "status"
                   /\ ev[1].pass <=> st.response.statusCode = expected
             /\ \A i \in 1..Len(ev) :
                   ev[i].check = "body" =>
                      (ev[i].pass <=> Get(st.call.res, "body") = S(Concat(st.chunks)))
    /\ \A i \in 1..Len(st.terminals) :
          LET x == st.terminals[i]
          IN /\ x.by = "end" /\ x.kind = "callback" => x.args[1] = st.response
             /\ x.kind = "callback" => st.call.cb.t = "function"
             /\ x.by = "error" =>
                   /\ ErrorOf(x).request.method = st.call.options.method
                   /\ ErrorOf(x).request.url = Url(self, st.call.options.path)
                   /\ ErrorOf(x).request.headers = st.call.options.headers

\* a step is a step of one call: it leaves the other calls as they are, it
\* leaves the client as it is, and it leaves the arguments of a call that
\* was made as they were passed
OneCallStep ==
    /\ self' = self
    /\ callVars' # callVars => others' = others
    /\ \A p \in 2..NumCalls :
          others'[p] # others[p] =>
             /\ callVars' = callVars
             /\ \A q \in 2..NumCalls : q # p => others'[q] = others[q]
    /\ pc # "idle" => call' = call
    /\ \A p \in 2..NumCalls : others[p].pc # "idle" => others'[p].call = others[p].call

\* C17: for any interleaving of the transport events of several calls in
\* flight on one client, each call's terminal action receives that call's own
\* response (the status and the headers that were delivered to it, the body
\* made of its own chunks) or its own error, checked against its own
\* expectations; a step of one call leaves the other calls' request,
\* response and callback as they were, and no call changes the client's
\* fields or the req and res objects of the caller.
C17_CallsAreIsolated ==
    /\ [](\A i \in 1..NumCalls : OwnOutcome(InFlight(i)))
    /\ [][OneCallStep]_vars

\* two calls ended, each with its own status, body and verdict, and each
\* reported to its own terminal action
Witness_C17 ==
    /\ ended /\ others[2].ended
    /\ call.cb.t # "function" /\ others[2].call.cb.t = "function"
    /\ response.statusCode = N(200) /\ others[2].response.statusCode = N(404)
    /\ chunks = <<"1">> /\ others[2].chunks = <<>>
    /\ asserted.error = Undefined
    /\ others[2].asserted.error # Undefined
    /\ others[2].asserted.evaluated[1].pass
    /\ \E i \in 1..Len(terminals) : terminals[i].by = "end" /\ terminals[i].kind = "done"
    /\ \E i \in 1..Len(others[2].terminals) :
          /\ others[2].terminals[i].by = "end"
          /\ others[2].terminals[i].args[1] = others[2].response

====
